---- MODULE Spec2Model ----
(***************************************************************************)
(* Model of bite's command-line parsing engine, src/bite/argparser.py:     *)
(* ParseInitialArgs._parse_known_args with its nested take_action,         *)
(* consume_optional and consume_positionals, the parse_stdin action and    *)
(* the type converters string_list, id_list and ids.                       *)
(*                                                                         *)
(* An argument string is a sequence of one-character strings, so that      *)
(* prefixes, "=" splitting and single-dash clusters are computed character *)
(* by character as the code does.                                          *)
(***************************************************************************)
EXTENDS Integers, Sequences, FiniteSets, TLC

\* Longest argument vector explored.
MaxArgs == 4

\* ------------------------------------------------------------------------
\* Strings

Dash == "-"
prefix_chars == {Dash}
Digits == {"0", "1", "2", "3", "4", "5", "6", "7", "8", "9"}
Whitespace == {" ", "\n"}

\* s.startswith(p)
StartsWith(s, p) ==
    /\ Len(p) <= Len(s)
    /\ SubSeq(s, 1, Len(p)) = p

\* c in s
Contains(s, c) == \E i \in 1..Len(s) : s[i] = c

\* s.find(c) + 1 (0 when c is not in s)
Find(s, c) ==
    IF Contains(s, c)
    THEN CHOOSE i \in 1..Len(s) : s[i] = c /\ \A j \in 1..(i - 1) : s[j] # c
    ELSE 0

\* s[i:] with i counted from 0 as in Python
Tail0(s, i) == SubSeq(s, i + 1, Len(s))

\* s.split(c): the pieces of s between occurrences of c
RECURSIVE Split(_, _)
Split(s, c) ==
    IF ~Contains(s, c) THEN <<s>>
    ELSE <<SubSeq(s, 1, Find(s, c) - 1)>> \o Split(Tail0(s, Find(s, c)), c)

\* s.strip(): leading and trailing whitespace removed
RECURSIVE LStrip(_)
LStrip(s) ==
    IF s # <<>> /\ s[1] \in Whitespace THEN LStrip(Tail(s)) ELSE s

RECURSIVE RStrip(_)
RStrip(s) ==
    IF s # <<>> /\ s[Len(s)] \in Whitespace
    THEN RStrip(SubSeq(s, 1, Len(s) - 1)) ELSE s


\* a slip in line 66: rstrip() for strip()
StripTrailing(s) == RStrip(s)

Strip(s) == LStrip(RStrip(s))

\* whether int(s) succeeds: an optional sign and then digits only
IsIntLiteral(s) ==
    LET body == IF s # <<>> /\ s[1] \in {"-", "+"} THEN Tail(s) ELSE s
    IN  /\ body # <<>>
        /\ \A i \in 1..Len(body) : body[i] \in Digits

\* ------------------------------------------------------------------------
\* Values held by the namespace

NoneV == [t |-> "None"]
SUPPRESS == [t |-> "SUPPRESS"]
Unset == [t |-> "unset"]
StrV(s) == [t |-> "str", s |-> s]
IntV(s) == [t |-> "int", s |-> s]
BoolV(b) == [t |-> "bool", b |-> b]
ListV(l) == [t |-> "list", l |-> l]
ClaimV(d, o) == [t |-> "claim", dest |-> d, option |-> o]

\* ------------------------------------------------------------------------
\* Registered arguments.  An argument is a record: its option strings (none
\* for a positional), destination, nargs, type converter, action class,
\* const, default and required flag.

Opt(strings, dest, nargs, type, cls, const, default, required) ==
    [option_strings |-> strings, dest |-> dest, nargs |-> nargs, type |-> type,
     cls |-> cls, const |-> const, default |-> default, required |-> required]

Group(members, required) == [group_actions |-> members, required |-> required]

\* Get.add_args: -f/--fields, ids, the -B/-U group, -A, -C
GetParser ==
    [actions |-> <<
        Opt(<< <<"-","f">>, <<"-","-","f","i","e","l","d","s">> >>, "fields",
            "None", "string_list", "store", NoneV, NoneV, FALSE),
        Opt(<<>>, "ids", "+", "ids", "parse_stdin", NoneV, NoneV, TRUE),
        Opt(<< <<"-","B">>, <<"-","-","b","r","o","w","s","e","r">> >>, "browser",
            "0", "None", "store_const", BoolV(TRUE), BoolV(FALSE), FALSE),
        Opt(<< <<"-","U">>, <<"-","-","u","r","l">> >>, "output_url",
            "0", "None", "store_const", BoolV(TRUE), BoolV(FALSE), FALSE),
        Opt(<< <<"-","A">>, <<"-","-","n","o","-","a","t","t","a","c","h","m","e","n","t","s">> >>,
            "get_attachments",
            "0", "None", "store_const", BoolV(FALSE), BoolV(TRUE), FALSE),
        Opt(<< <<"-","C">>, <<"-","-","n","o","-","c","o","m","m","e","n","t","s">> >>,
            "get_comments",
            "0", "None", "store_const", BoolV(FALSE), BoolV(TRUE), FALSE) >>,
     groups |-> << Group(<<3, 4>>, FALSE) >>,
     tokens |-> { <<"-","B">>, <<"-","-","u","r","l">>, <<"-","A","C">>,
                  <<"-","f">>, <<"7">>, <<"-">>, <<"-","-">>, <<"-","q">> }]

\* Search.add_args with the jira person options: terms, -a, -r
SearchParser ==
    [actions |-> <<
        Opt(<<>>, "terms", "*", "None", "parse_stdin", NoneV, NoneV, TRUE),
        Opt(<< <<"-","a">>, <<"-","-","a","s","s","i","g","n","e","d","-","t","o">> >>,
            "assigned_to",
            "None", "string_list", "parse_stdin", NoneV, NoneV, FALSE),
        Opt(<< <<"-","r">>, <<"-","-","c","r","e","a","t","o","r">> >>, "creator",
            "None", "string_list", "parse_stdin", NoneV, NoneV, FALSE) >>,
     groups |-> <<>>,
     tokens |-> { <<"-","a">>, <<"-","r">>, <<"-">>, <<"-","r","-">>,
                  <<"x",",","y">>, <<"-","-">> }]

\* Create.add_args on SendSubcmd: options only, no positional
CreateParser ==
    [actions |-> <<
        Opt(<< <<"-","-","d","r","y","-","r","u","n">> >>, "dry_run",
            "0", "None", "store_const", BoolV(TRUE), BoolV(FALSE), FALSE),
        Opt(<< <<"-","-","a","s","k">> >>, "ask",
            "0", "None", "store_const", BoolV(TRUE), BoolV(FALSE), FALSE),
        Opt(<< <<"-","F">>,
               <<"-","-","d","e","s","c","r","i","p","t","i","o","n","-","f","r","o","m">> >>,
            "description_from",
            "None", "None", "store", NoneV, NoneV, FALSE),
        Opt(<< <<"-","-","a","p","p","e","n","d","-","c","o","m","m","a","n","d">> >>,
            "append_command",
            "None", "None", "store", NoneV, NoneV, FALSE),
        Opt(<< <<"-","-","b","a","t","c","h">> >>, "batch",
            "0", "None", "store_const", BoolV(TRUE), BoolV(FALSE), FALSE) >>,
     groups |-> <<>>,
     tokens |-> { <<"-","F">>, <<"-","F","x">>, <<"-","-","b","a","t","c","h">>,
                  <<"-","-","b">>, <<"-","-","a">>, <<"-","-","a","s","k","=","x">>,
                  <<"x">>, <<"-","-">> }]

\* A parser whose required group holds a flag and an optional positional:
\* -B/--browser or any number of files
ExclusiveParser ==
    [actions |-> <<
        Opt(<< <<"-","B">>, <<"-","-","b","r","o","w","s","e","r">> >>, "browser",
            "0", "None", "store_const", BoolV(TRUE), BoolV(FALSE), FALSE),
        Opt(<<>>, "files", "*", "None", "store", NoneV, NoneV, FALSE) >>,
     groups |-> << Group(<<1, 2>>, TRUE) >>,
     tokens |-> { <<"-","B">>, <<"x">>, <<"-","-">> }]

\* Search.add_args as a Subcmd builds it, with argument_default=SUPPRESS:
\* terms, -f/--fields and --dry-run, each with the default SUPPRESS
SubcmdParser ==
    [actions |-> <<
        Opt(<<>>, "terms", "*", "None", "parse_stdin", NoneV, SUPPRESS, TRUE),
        Opt(<< <<"-","f">>, <<"-","-","f","i","e","l","d","s">> >>, "fields",
            "None", "string_list", "store", NoneV, SUPPRESS, FALSE),
        Opt(<< <<"-","-","d","r","y","-","r","u","n">> >>, "dry_run",
            "0", "None", "store_const", BoolV(TRUE), SUPPRESS, FALSE) >>,
     groups |-> <<>>,
     tokens |-> { <<"-","f">>, <<"x">>, <<"-","-","d","r","y","-","r","u","n">>,
                  <<"-">> }]

\* A parser with a required option, a positional of exactly two strings and
\* a required group of two flags: -o/--output VALUE, pair, -v | -q
StrictParser ==
    [actions |-> <<
        Opt(<< <<"-","o">>, <<"-","-","o","u","t","p","u","t">> >>, "output",
            "None", "None", "store", NoneV, NoneV, TRUE),
        Opt(<<>>, "pair", "2", "None", "store", NoneV, NoneV, TRUE),
        Opt(<< <<"-","v">> >>, "verbose",
            "0", "None", "store_const", BoolV(TRUE), BoolV(FALSE), FALSE),
        Opt(<< <<"-","q">> >>, "quiet",
            "0", "None", "store_const", BoolV(TRUE), BoolV(FALSE), FALSE) >>,
     groups |-> << Group(<<3, 4>>, TRUE) >>,
     tokens |-> { <<"-","o","x">>, <<"-","v">>, <<"-","q">>, <<"x">>,
                  <<"-","v","x">> }]

\* options of every arity an option of bite has (Modify's -c/--comment,
\* nargs='?' with a const, __init__.py line 330; nargs='+' as for ids) and a
\* flag to lead a cluster; two of them required
VariadicParser ==
    [actions |-> <<
        Opt(<< <<"-","c">>, <<"-","-","c","o","m","m","e","n","t">> >>, "comment",
            "?", "None", "parse_stdin", StrV(<<"E","D">>), NoneV, FALSE),
        Opt(<< <<"-","k">> >>, "keywords",
            "+", "None", "store", NoneV, NoneV, TRUE),
        Opt(<< <<"-","v">> >>, "verbose",
            "0", "None", "store_const", BoolV(TRUE), BoolV(FALSE), TRUE) >>,
     groups |-> <<>>,
     tokens |-> { <<"-","c">>, <<"-","k">>, <<"x">>, <<"-","v","c","x">>,
                  <<"-","-","c","o","m","m","e","n","t","=","x">>,
                  <<"-","v","k">> }]

Parsers ==
    << GetParser, SearchParser, CreateParser, ExclusiveParser, SubcmdParser,
       StrictParser, VariadicParser >>

\* ------------------------------------------------------------------------
\* Standard input as the process sees it: what the pipe holds.

PipedInputs ==
    { << <<" ","8"," ","\n">>, <<"\n">>, <<"9">> >> }

\* ------------------------------------------------------------------------
\* Outcome of a parse: no error, or the exception that left _parse_known_args.
\* ArgumentError is argparse's own error (with the argument it is about);
\* SystemExit is parser.error(); NameError and TypeError are what building an
\* error message raises when a name is unbound or "%" meets a "{}" template.

NoError == [kind |-> "none", action |-> 0, why |-> "", other |-> 0]
Error(kind, action, why, other) ==
    [kind |-> kind, action |-> action, why |-> why, other |-> other]

\* msg = _('... {}') ; msg % name -- lines 187-189, 233-234, 247-248,
\* 343-344, 358-359.  With _ unbound the call raises NameError; with _ bound
\* the "%" finds no conversion in the template and raises TypeError.
MessageFailure(gettext_bound) ==
    IF gettext_bound THEN "TypeError" ELSE "NameError"

\* ------------------------------------------------------------------------
\* The token classifier: _parse_optional and _get_option_tuples.

\* self._option_string_actions: the option strings of parser P
OptionStrings(P) ==
    UNION { { P.actions[a].option_strings[k] :
                k \in 1..Len(P.actions[a].option_strings) } :
            a \in 1..Len(P.actions) }

\* self._option_string_actions[s]
OptionAction(P, s) ==
    CHOOSE a \in 1..Len(P.actions) :
        \E k \in 1..Len(P.actions[a].option_strings) :
            P.actions[a].option_strings[k] = s

\* self._negative_number_matcher: '^-\d+$|^-\d*\.\d+$'
LooksNegative(s) ==
    /\ Len(s) >= 2
    /\ s[1] = "-"
    /\ \/ \A i \in 2..Len(s) : s[i] \in Digits
       \/ \E d \in 2..(Len(s) - 1) :
            /\ s[d] = "."
            /\ \A i \in (2..Len(s)) \ {d} : s[i] \in Digits

\* self._has_negative_number_optionals
HasNegativeNumberOptionals(P) == \E o \in OptionStrings(P) : LooksNegative(o)

NotOptional == [kind |-> "positional"]
Ambiguous == [kind |-> "ambiguous"]
\* the tuple (action, option_string, explicit_arg); action 0 is None and
\* explicit = FALSE is an explicit_arg of None
\* (a slip in _parse_optional: the explicit argument is dropped)
OptionTupleBare(action, option_string, explicit, explicit_arg) ==
    [kind |-> "option", action |-> action, option_string |-> option_string,
     explicit |-> FALSE, explicit_arg |-> <<>>]

OptionTuple(action, option_string, explicit, explicit_arg) ==
    [kind |-> "option", action |-> action, option_string |-> option_string,
     explicit |-> explicit, explicit_arg |-> explicit_arg]

\* a slip in _get_option_tuples: a single-dash string is only ever matched
\* as a whole, never as a short option followed by more characters
GetOptionTuplesWhole(P, s) ==
    LET eq == Find(s, "=")
        option_prefix == IF eq > 0 THEN SubSeq(s, 1, eq - 1) ELSE s
    IN  { OptionTuple(OptionAction(P, o), o, eq > 0,
                      IF eq > 0 THEN Tail0(s, eq) ELSE <<>>) :
          o \in { o \in OptionStrings(P) : StartsWith(o, option_prefix) } }

\* _get_option_tuples: every registered option the string may abbreviate
GetOptionTuples(P, s) ==
    IF s[2] \in prefix_chars
    THEN LET eq == Find(s, "=")
             option_prefix == IF eq > 0 THEN SubSeq(s, 1, eq - 1) ELSE s
         IN  { OptionTuple(OptionAction(P, o), o, eq > 0,
                           IF eq > 0 THEN Tail0(s, eq) ELSE <<>>) :
               o \in { o \in OptionStrings(P) : StartsWith(o, option_prefix) } }
    ELSE { OptionTuple(OptionAction(P, o), o, TRUE, Tail0(s, 2)) :
               o \in { o \in OptionStrings(P) : o = SubSeq(s, 1, 2) } }
         \cup
         { OptionTuple(OptionAction(P, o), o, FALSE, <<>>) :
               o \in { o \in OptionStrings(P) :
                         o # SubSeq(s, 1, 2) /\ StartsWith(o, s) } }

\* _parse_optional
ParseOptional(P, s) ==
    IF s = <<>> THEN NotOptional
    ELSE IF s[1] \notin prefix_chars THEN NotOptional
    ELSE IF s \in OptionStrings(P)
        THEN OptionTuple(OptionAction(P, s), s, FALSE, <<>>)
    ELSE IF Len(s) = 1 THEN NotOptional
    ELSE IF /\ Contains(s, "=")
            /\ SubSeq(s, 1, Find(s, "=") - 1) \in OptionStrings(P)
        THEN OptionTuple(OptionAction(P, SubSeq(s, 1, Find(s, "=") - 1)),
                         SubSeq(s, 1, Find(s, "=") - 1), TRUE,
                         Tail0(s, Find(s, "=")))
    ELSE IF Cardinality(GetOptionTuples(P, s)) > 1 THEN Ambiguous
    ELSE IF Cardinality(GetOptionTuples(P, s)) = 1
        THEN CHOOSE t \in GetOptionTuples(P, s) : TRUE
    ELSE IF LooksNegative(s) /\ ~HasNegativeNumberOptionals(P) THEN NotOptional
    ELSE IF Contains(s, " ") THEN NotOptional
    ELSE OptionTuple(0, s, FALSE, <<>>)

\* position (from 1) of the first '--' of the argument strings, 0 without one
FirstSeparator(args) == Find(args, <<"-", "-">>)

\* a slip in lines 150-156: the strings after '--' are still classified
PatternAtClassified(P, args, i) ==
    IF FirstSeparator(args) = i THEN "-"
    ELSE IF ParseOptional(P, args[i]).kind = "option" THEN "O"
    ELSE "A"

\* lines 147-170: the pattern symbol of argument i
PatternAt(P, args, i) ==
    IF FirstSeparator(args) = i THEN "-"
    ELSE IF FirstSeparator(args) # 0 /\ FirstSeparator(args) < i THEN "A"
    ELSE IF ParseOptional(P, args[i]).kind = "positional" THEN "A"
    ELSE "O"

\* lines 147-170: arg_strings_pattern
ArgStringsPattern(P, args) == [i \in 1..Len(args) |-> PatternAt(P, args, i)]

\* lines 147-166: the indices that hold an option, each with its tuple; as in
\* the code, indices count from 0
OptionStringIndices(P, args) ==
    [i \in { j - 1 : j \in { k \in 1..Len(args) : PatternAt(P, args, k) = "O" } } |->
        ParseOptional(P, args[i + 1])]

\* an argument before the separator whose option string is ambiguous:
\* _parse_optional calls self.error there
AmbiguousIndices(P, args) ==
    { i \in 1..Len(args) :
        /\ FirstSeparator(args) = 0 \/ i < FirstSeparator(args)
        /\ ParseOptional(P, args[i]).kind = "ambiguous" }

\* lines 136-142: action_conflicts[a], the other members of a's groups
\* (a slip in lines 140-141: the whole group is taken, the action with it)
ActionConflictsWithSelf(P, a) ==
    { b \in 1..Len(P.actions) :
        \E g \in 1..Len(P.groups) :
            \E i, j \in 1..Len(P.groups[g].group_actions) :
                /\ P.groups[g].group_actions[i] = a
                /\ P.groups[g].group_actions[j] = b }

ActionConflicts(P, a) ==
    { b \in 1..Len(P.actions) :
        \E g \in 1..Len(P.groups) :
            \E i, j \in 1..Len(P.groups[g].group_actions) :
                /\ i # j
                /\ P.groups[g].group_actions[i] = a
                /\ P.groups[g].group_actions[j] = b }

\* ------------------------------------------------------------------------
\* Matching nargs patterns against the pattern string: _get_nargs_pattern,
\* _match_argument and _match_arguments_partial.

NargsCount(nargs) == CASE nargs = "0" -> 0 [] nargs = "1" -> 1 [] nargs = "2" -> 2

\* number of 'A' symbols of a pattern slice
CountA(p) == Cardinality({ i \in 1..Len(p) : p[i] = "A" })

\* whether the whole slice p is matched by the nargs pattern of the argument:
\* (a slip in the patterns: 'O' is matched where 'A' is)
NargsPatternMatchesOptions(action, p) ==
    /\ \A i \in 1..Len(p) :
          p[i] \in {"A", "O"} \/ (p[i] = "-" /\ action.option_strings = <<>>)
    /\ LET n == Cardinality({ i \in 1..Len(p) : p[i] \in {"A", "O"} })
       IN  CASE action.nargs = "None" -> n = 1
             [] action.nargs = "?" -> n <= 1
             [] action.nargs = "*" -> TRUE
             [] action.nargs = "+" -> n >= 1
             [] OTHER -> n = NargsCount(action.nargs)

\* '(-*A-*)', '(-*A?-*)', '(-*[A-]*)', '(-*A[A-]*)' and '(-*A-*...A-*)',
\* with every '-' removed from the pattern of an optional
NargsPatternMatches(action, p) ==
    /\ \A i \in 1..Len(p) :
          p[i] = "A" \/ (p[i] = "-" /\ action.option_strings = <<>>)
    /\ CASE action.nargs = "None" -> CountA(p) = 1
         [] action.nargs = "?" -> CountA(p) <= 1
         [] action.nargs = "*" -> TRUE
         [] action.nargs = "+" -> CountA(p) >= 1
         [] OTHER -> CountA(p) = NargsCount(action.nargs)

\* the lengths of the prefixes of p[from..] the argument's pattern matches
MatchLengths(action, p, from) ==
    { n \in 0..(Len(p) - from + 1) :
        NargsPatternMatches(action, SubSeq(p, from, from + n - 1)) }

Max(S) == CHOOSE n \in S : \A m \in S : m <= n

\* (a slip in _match_argument: no match counts as no argument)
MatchArgumentOrNone(action, p) ==
    IF MatchLengths(action, p, 1) = {} THEN 0
    ELSE Max(MatchLengths(action, p, 1))

\* _match_argument: len(match.group(1)), or -1 where it raises ArgumentError
MatchArgument(action, p) ==
    IF MatchLengths(action, p, 1) = {} THEN -1
    ELSE Max(MatchLengths(action, p, 1))

\* the message of the ArgumentError _match_argument raises
NargsError(action) ==
    CASE action.nargs = "None" -> "expected one argument"
      [] action.nargs = "?" -> "expected at most one argument"
      [] action.nargs = "+" -> "expected at least one argument"
      [] OTHER -> "expected N argument(s)"

\* re.match of the concatenated patterns of `actions` at p[from..]: the
\* group lengths of the first match a greedy, backtracking matcher finds
\* (each group as long as the rest still allows), <<-1>> when none matches
RECURSIVE MatchAll(_, _, _)
MatchAll(actions, p, from) ==
    IF actions = <<>> THEN <<>>
    ELSE LET good == { n \in MatchLengths(actions[1], p, from) :
                         MatchAll(Tail(actions), p, from + n) # <<-1>> }
         IN  IF good = {} THEN <<-1>>
             ELSE <<Max(good)>> \o MatchAll(Tail(actions), p, from + Max(good))

\* _match_arguments_partial: the counts for the longest prefix of `actions`
\* whose patterns match
RECURSIVE MatchArgumentsPartial(_, _, _)
MatchArgumentsPartial(actions, p, from) ==
    IF actions = <<>> THEN <<>>
    ELSE IF MatchAll(actions, p, from) # <<-1>> THEN MatchAll(actions, p, from)
    ELSE MatchArgumentsPartial(SubSeq(actions, 1, Len(actions) - 1), p, from)

\* ------------------------------------------------------------------------
\* Type converters (lines 10-38) and _get_values.

\* a converter's result: the value, or the message of its ArgumentTypeError
Converted(v) == [ok |-> TRUE, value |-> v, why |-> ""]
Rejected(why) == [ok |-> FALSE, value |-> NoneV, why |-> why]

\* string_list, lines 10-14
string_list(isatty, s) ==
    IF isatty \/ s # <<"-">>
    THEN LET items == Split(s, ",")
             kept == SelectSeq(items, LAMBDA item : item # <<>>)
         IN  Converted(ListV([i \in 1..Len(kept) |-> StrV(kept[i])]))
    ELSE Converted(StrV(s))

\* a slip in line 29: ids never asks whether standard input is a terminal
idsAnyInput(isatty, s) ==
    IF s # <<"-">>
    THEN IF IsIntLiteral(s) THEN Converted(IntV(s))
         ELSE Rejected("invalid ID value")
    ELSE Converted(StrV(s))

\* ids, lines 28-38
ids(isatty, s) ==
    IF isatty \/ s # <<"-">>
    THEN IF IsIntLiteral(s) THEN Converted(IntV(s))
         ELSE IF s = <<"-">>
              THEN Rejected("'-' is only valid when piping data in")
              ELSE Rejected("invalid ID value")
    ELSE Converted(StrV(s))

\* _get_value: type_func(arg_string); no type is the identity
GetValue(action, isatty, s) ==
    CASE action.type = "string_list" -> string_list(isatty, s)
      [] action.type = "ids" -> ids(isatty, s)
      [] OTHER -> Converted(StrV(s))

\* the string a default or const is, when it is one (SUPPRESS is a string)
SuppressString == <<"=","=","S","U","P","P","R","E","S","S","=","=">>
IsString(v) == v.t \in {"str", "SUPPRESS"}
AsString(v) == IF v.t = "SUPPRESS" THEN SuppressString ELSE v.s

\* arg_strings.remove('--'): the position removed (0 when none is)
RemovedAt(args) == Find(args, <<"-", "-">>)
WithoutSeparator(args) ==
    IF RemovedAt(args) = 0 THEN args
    ELSE SubSeq(args, 1, RemovedAt(args) - 1) \o Tail0(args, RemovedAt(args))

\* whether two values built apart are one object: only the singletons are
SameObject(v, w) ==
    /\ v.t = w.t
    /\ v.t \in {"None", "SUPPRESS", "bool"}
    /\ v.t = "bool" => v.b = w.b

\* _get_values: the converted value, whether it is the very object
\* action.default (what "argument_values is not action.default" tests), or
\* the ArgumentError a converter raised
GetValues(action, isatty, argument_strings) ==
    LET strings == WithoutSeparator(argument_strings)
        Result(v, same) == [ok |-> TRUE, value |-> v, is_default |-> same, why |-> ""]
        Failure(why) == [ok |-> FALSE, value |-> NoneV, is_default |-> FALSE, why |-> why]
    IN  IF strings = <<>> /\ action.nargs = "?"
        THEN LET value == IF action.option_strings # <<>>
                          THEN action.const ELSE action.default
                 conv == GetValue(action, isatty, AsString(value))
             IN  IF ~IsString(value)
                 THEN Result(value, SameObject(value, action.default)
                                    \/ action.option_strings = <<>>)
                 ELSE IF ~conv.ok THEN Failure(conv.why)
                 ELSE IF conv.value.t = "str"
                      \* the converter handed the object back
                      THEN Result(value, action.option_strings = <<>>
                                         \/ SameObject(value, action.default))
                      ELSE Result(conv.value, FALSE)
        ELSE IF /\ strings = <<>>
                /\ action.nargs = "*"
                /\ action.option_strings = <<>>
        THEN IF action.default.t # "None"
             THEN Result(action.default, TRUE)
             ELSE Result(ListV(<<>>), FALSE)
        ELSE IF Len(strings) = 1 /\ action.nargs \in {"None", "?"}
        THEN LET conv == GetValue(action, isatty, strings[1])
             IN  IF conv.ok THEN Result(conv.value, FALSE) ELSE Failure(conv.why)
        ELSE LET convs == [i \in 1..Len(strings) |->
                              GetValue(action, isatty, strings[i])]
                 bad == { i \in 1..Len(strings) : ~convs[i].ok }
             IN  IF bad = {}
                 THEN Result(ListV([i \in 1..Len(strings) |-> convs[i].value]),
                             FALSE)
                 ELSE Failure(convs[CHOOSE i \in bad :
                                      \A j \in bad : i <= j].why)

\* ------------------------------------------------------------------------
\* State

VARIABLES
    parser,                   \* which registry is parsed against (self)
    arg_strings,              \* the argument vector
    stdin,                    \* sys.stdin and the pipe behind it
    pc,                       \* position in _parse_known_args
    arg_strings_pattern,      \* line 170
    option_string_indices,    \* line 147
    seen_actions,             \* line 173
    seen_non_default_actions, \* line 174
    namespace,                \* the namespace argument
    extras,                   \* line 294
    positionals,              \* line 271
    start_index,              \* line 295
    action_tuples,            \* calls of take_action still to be made
    stop,                     \* the index the running consume_* returns
    error,                    \* the exception that ended the parse, if any
    taken,                    \* history: every call of take_action
    extras_from               \* history: the index each extra came from

vars == << parser, arg_strings, stdin, pc, arg_strings_pattern,
           option_string_indices, seen_actions, seen_non_default_actions,
           namespace, extras, positionals, start_index, action_tuples, stop,
           error, taken, extras_from >>

P == Parsers[parser]

\* sys.stdin.isatty()
IsATTY(in) == in.handle = "/dev/tty" \/ in.tty

\* the destinations of a parser, and 'stdin' where parse_stdin keeps its claim
Dests(R) == { R.actions[a].dest : a \in 1..Len(R.actions) } \cup {"stdin"}

\* parse_known_args gives the namespace every default that is not SUPPRESS
\* before it calls _parse_known_args
InitialNamespace(R) ==
    [d \in Dests(R) |->
        IF \E a \in 1..Len(R.actions) :
              R.actions[a].dest = d /\ R.actions[a].default.t # "SUPPRESS"
        THEN R.actions[CHOOSE a \in 1..Len(R.actions) :
                R.actions[a].dest = d /\ R.actions[a].default.t # "SUPPRESS"].default
        ELSE Unset]

\* self._get_positional_actions()
PositionalActions(R) ==
    SelectSeq([a \in 1..Len(R.actions) |-> a],
              LAMBDA a : R.actions[a].option_strings = <<>>)

\* the argument vectors of at most n strings over a parser's tokens
ArgVectors(R, n) == UNION { [1..k -> R.tokens] : k \in 0..n }

Init ==
    /\ parser \in 1..Len(Parsers)
    /\ arg_strings \in ArgVectors(Parsers[parser], MaxArgs)
    /\ stdin \in
         { [tty |-> TRUE, lines |-> <<>>, handle |-> "original", reads |-> 0] }
         \cup { [tty |-> FALSE, lines |-> l, handle |-> "original", reads |-> 0] :
                l \in PipedInputs }
    /\ pc = "start"
    /\ arg_strings_pattern = <<>>
    /\ option_string_indices = <<>>
    /\ seen_actions = {}
    /\ seen_non_default_actions = {}
    /\ namespace = InitialNamespace(Parsers[parser])
    /\ extras = <<>>
    /\ positionals = <<>>
    /\ start_index = 0
    /\ action_tuples = <<>>
    /\ stop = 0
    /\ error = NoError
    /\ taken = <<>>
    /\ extras_from = <<>>

\* (a slip: the exception is noted and the parse goes on)
RaiseAndGoOn(e) ==
    /\ error' = e
    /\ pc' = pc

\* the parse has ended with an exception
Raise(e) ==
    /\ error' = e
    /\ pc' = "failed"

\* lines 131-170 and 271, 294-299: the pattern and the option indices
BuildPattern ==
    /\ pc = "start"
    /\ IF AmbiguousIndices(P, arg_strings) # {}
       THEN /\ Raise(Error("SystemExit", 0, "ambiguous option", 0))
            /\ UNCHANGED << arg_strings_pattern, option_string_indices,
                            positionals >>
       ELSE /\ arg_strings_pattern' = ArgStringsPattern(P, arg_strings)
            /\ option_string_indices' = OptionStringIndices(P, arg_strings)
            /\ positionals' = PositionalActions(P)
            /\ pc' = "loop"
            /\ UNCHANGED error
    /\ UNCHANGED << parser, arg_strings, stdin, seen_actions,
                    seen_non_default_actions, namespace, extras, start_index,
                    action_tuples, stop, taken, extras_from >>

\* seq[a:b] with Python's indices
Slice(seq, a, b) == SubSeq(seq, a + 1, b)

\* ------------------------------------------------------------------------
\* consume_optional, lines 197-260: the resolution of one option token

Invocation(action, args, from, option_string, at) ==
    [action |-> action, args |-> args, from |-> from,
     option_string |-> option_string, at |-> at]

\* the indices a..b-1 as a sequence
IndexRange(a, b) == [i \in 1..(b - a) |-> a + i - 1]

\* lines 210-212: no registered option; the string goes to extras and the
\* index moves past it
\* (a slip in line 212: the index is returned as it was given)
SkipUnknownInPlace(index) ==
    [kind |-> "extras", tuples |-> <<>>, stop |-> index, error |-> NoError]

\* (a slip in line 212: the string after it is passed over as well)
SkipUnknownAndNext(index) ==
    [kind |-> "extras", tuples |-> <<>>, stop |-> index + 2, error |-> NoError]

SkipUnknown(index) ==
    [kind |-> "extras", tuples |-> <<>>, stop |-> index + 1, error |-> NoError]

\* the loop of lines 207-260 from one (action, option_string, explicit_arg);
\* `tuples` is action_tuples so far.  The result is "extras" (line 211),
\* "tuples" with the calls to make and the stop index, or "raise"
RECURSIVE ResolveOptional(_, _, _, _, _, _, _, _, _)
ResolveOptional(R, args, pattern, index, action, option_string, explicit, explicit_arg, tuples) ==
    LET Done(ts, st) == [kind |-> "tuples", tuples |-> ts, stop |-> st,
                         error |-> NoError]
        Fails(e) == [kind |-> "raise", tuples |-> <<>>, stop |-> index, error |-> e]
        A == R.actions[action]
    IN  IF action = 0
        THEN SkipUnknown(index)
        ELSE IF explicit
        THEN LET arg_count == MatchArgument(A, <<"A">>)
             IN  IF arg_count = -1
                 THEN Fails(Error("ArgumentError", action, NargsError(A), 0))
                 ELSE IF arg_count = 0 /\ option_string[2] \notin prefix_chars
                 THEN IF explicit_arg = <<>>
                      THEN Fails(Error("IndexError", action, "explicit_arg[0]", 0))
                      ELSE IF <<option_string[1], explicit_arg[1]>> \in OptionStrings(R)
                      THEN ResolveOptional(R, args, pattern, index,
                              OptionAction(R, <<option_string[1], explicit_arg[1]>>),
                              <<option_string[1], explicit_arg[1]>>,
                              Tail(explicit_arg) # <<>>, Tail(explicit_arg),
                              Append(tuples,
                                  Invocation(action, <<>>, <<>>, option_string, index)))
                      ELSE Fails(Error("message", action,
                                       "ignored explicit argument", 0))
                 ELSE IF arg_count = 1
                 THEN Done(Append(tuples,
                               Invocation(action, <<explicit_arg>>, <<>>,
                                          option_string, index)),
                           index + 1)
                 ELSE Fails(Error("message", action,
                                  "ignored explicit argument", 0))
        ELSE LET start == index + 1
                 arg_count == MatchArgument(A, Slice(pattern, start, Len(pattern)))
             IN  IF arg_count = -1
                 THEN Fails(Error("ArgumentError", action, NargsError(A), 0))
                 ELSE Done(Append(tuples,
                               Invocation(action,
                                          Slice(args, start, start + arg_count),
                                          IndexRange(start, start + arg_count),
                                          option_string, index)),
                           start + arg_count)

\* consume_positionals, lines 274-285: the calls for the positionals matched
RECURSIVE PositionalInvocations(_, _, _, _)
PositionalInvocations(actions, arg_counts, args, index) ==
    IF arg_counts = <<>> THEN <<>>
    ELSE <<Invocation(actions[1], Slice(args, index, index + arg_counts[1]),
                      IndexRange(index, index + arg_counts[1]), <<>>, -1)>>
         \o PositionalInvocations(Tail(actions), Tail(arg_counts), args,
                                  index + arg_counts[1])

\* a slip in lines 283-284: the index moved by one per positional
SumOnePerAction(seq) == Len(seq)

\* lines 283-284: start_index += arg_count, over the positionals matched
RECURSIVE Sum(_)
Sum(seq) == IF seq = <<>> THEN 0 ELSE seq[1] + Sum(Tail(seq))

\* ------------------------------------------------------------------------
\* The bound actions: what action(self, namespace, values, option_string)
\* does (line 194)

\* the effect of a call: namespace, sys.stdin and the exception it raised
Effect(ns, in, e) == [namespace |-> ns, stdin |-> in, error |-> e]

\* [x.strip() for x in sys.stdin.readlines() if x.strip() != ''], line 66
ReadLines(lines) ==
    LET kept == SelectSeq(lines, LAMBDA x : Strip(x) # <<>>)
    IN  ListV([i \in 1..Len(kept) |-> StrV(Strip(kept[i]))])

\* (a slip in line 53: the length of values is not looked at)
IsPlaceholderFirst(values) ==
    CASE values.t = "None" -> "no"
      [] values.t = "str" -> IF values.s # <<>> /\ values.s[1] = "-"
                             THEN "yes" ELSE "no"
      [] values.t = "SUPPRESS" -> "no"
      [] values.t = "list" ->
            IF /\ values.l # <<>>
               /\ values.l[1].t = "str"
               /\ values.l[1].s = <<"-">>
            THEN "yes" ELSE "no"
      [] OTHER -> "TypeError"

\* values is not None and len(values) == 1 and values[0] == '-', line 53;
\* "TypeError" where len() is applied to a number
IsPlaceholder(values) ==
    CASE values.t = "None" -> "no"
      [] values.t = "str" -> IF values.s = <<"-">> THEN "yes" ELSE "no"
      [] values.t = "SUPPRESS" -> "no"
      [] values.t = "list" ->
            IF /\ Len(values.l) = 1
               /\ values.l[1].t = "str"
               /\ values.l[1].s = <<"-">>
            THEN "yes" ELSE "no"
      [] OTHER -> "TypeError"

\* a slip in line 67: sys.stdin is left as it was after the pipe is read
parse_stdinKeepsHandle(a, action, ns, in, values, option_string, tty_opens) ==
    LET option == ClaimV(action.dest,
                         IF option_string = <<>> THEN <<action.dest>>
                         ELSE option_string)
    IN  IF IsPlaceholder(values) = "yes" /\ ~IsATTY(in)
        THEN IF ns["stdin"].t # "unset"
             THEN Effect(ns, in,
                         Error("SystemExit", a,
                               "data from standard input already being used", 0))
             ELSE Effect([ns EXCEPT !["stdin"] = option,
                                    ![action.dest] = ReadLines(in.lines)],
                         [in EXCEPT !.reads = @ + 1], NoError)
        ELSE Effect([ns EXCEPT ![action.dest] = values], in, NoError)

\* parse_stdin.__call__, lines 52-68.  option_string <<>> is None;
\* tty_opens says whether open('/dev/tty') succeeds
parse_stdin(a, action, ns, in, values, option_string, tty_opens) ==
    LET option == ClaimV(action.dest,
                         IF option_string = <<>> THEN <<action.dest>>
                         ELSE option_string)
    IN  IF IsPlaceholder(values) = "TypeError"
        THEN Effect(ns, in, Error("TypeError", a, "len() of a number", 0))
        ELSE IF IsPlaceholder(values) = "yes" /\ ~IsATTY(in)
        THEN IF ns["stdin"].t # "unset"
             THEN Effect(ns, in,
                         Error("SystemExit", a,
                               "data from standard input already being used", 0))
             ELSE IF ~tty_opens
             THEN Effect([ns EXCEPT !["stdin"] = option],
                         [in EXCEPT !.reads = @ + 1],
                         Error("IOError", a, "open('/dev/tty')", 0))
             ELSE Effect([ns EXCEPT !["stdin"] = option,
                                    ![action.dest] = ReadLines(in.lines)],
                         [in EXCEPT !.reads = @ + 1, !.handle = "/dev/tty"],
                         NoError)
        ELSE Effect([ns EXCEPT ![action.dest] = values], in, NoError)

\* _StoreAction and _StoreConstAction of argparse
store(action, ns, in, values) ==
    Effect([ns EXCEPT ![action.dest] = values], in, NoError)

store_const(action, ns, in) ==
    Effect([ns EXCEPT ![action.dest] = action.const], in, NoError)

\* action(self, namespace, argument_values, option_string), line 194
CallAction(a, action, ns, in, values, option_string, tty_opens) ==
    CASE action.cls = "parse_stdin" ->
            parse_stdin(a, action, ns, in, values, option_string, tty_opens)
      [] action.cls = "store_const" -> store_const(action, ns, in)
      [] OTHER -> store(action, ns, in, values)

\* a slip in lines 185-189: the conflicts are never looked at
NoConflict(R, a, seen) == 0

\* the first member of action_conflicts[a] already seen with a value, 0 if none
FirstConflict(R, a, seen) ==
    IF ActionConflicts(R, a) \cap seen = {} THEN 0
    ELSE CHOOSE b \in ActionConflicts(R, a) \cap seen :
            \A c \in ActionConflicts(R, a) \cap seen : b <= c

\* a slip in line 193: the action is called whatever the value
RunsActionAlways(argument_values) == TRUE

\* line 193: argument_values is not SUPPRESS
RunsAction(argument_values) == argument_values.t # "SUPPRESS"

\* take_action, lines 176-194, for the first call still to be made
TakeAction ==
    /\ pc \in {"optional", "positionals", "final"}
    /\ action_tuples # <<>>
    /\ LET t == Head(action_tuples)
           A == P.actions[t.action]
           got == GetValues(A, IsATTY(stdin), t.args)
           non_default == IF got.ok /\ ~got.is_default
                          THEN seen_non_default_actions \cup {t.action}
                          ELSE seen_non_default_actions
           conflict == IF got.ok /\ ~got.is_default
                       THEN FirstConflict(P, t.action, non_default) ELSE 0
           Record(outcome) ==
               Append(taken, [action |-> t.action, args |-> t.args,
                              from |-> t.from, option_string |-> t.option_string,
                              at |-> t.at, outcome |-> outcome])
       IN  /\ seen_actions' = seen_actions \cup {t.action}
           /\ seen_non_default_actions' = non_default
           /\ action_tuples' = Tail(action_tuples)
           /\ IF ~got.ok
              THEN /\ Raise(Error("ArgumentError", t.action, got.why, 0))
                   /\ taken' = Record("raised")
                   /\ UNCHANGED << namespace, stdin >>
              ELSE IF conflict # 0
              \* line 187 needs _ and line 188 _get_action_name: neither is
              \* a name of the module
              THEN /\ Raise(Error("NameError", t.action, "not allowed with argument",
                                  conflict))
                   /\ taken' = Record("raised")
                   /\ UNCHANGED << namespace, stdin >>
              ELSE IF ~RunsAction(got.value)
              THEN /\ taken' = Record("suppressed")
                   /\ UNCHANGED << namespace, stdin, error, pc >>
              ELSE \E tty_opens \in BOOLEAN :
                     LET eff == CallAction(t.action, A, namespace, stdin,
                                           got.value, t.option_string, tty_opens)
                     IN  /\ namespace' = eff.namespace
                         /\ stdin' = eff.stdin
                         /\ IF eff.error.kind # "none"
                            THEN /\ Raise(eff.error)
                                 /\ taken' = Record("raised")
                            ELSE /\ taken' = Record("applied")
                                 /\ UNCHANGED << error, pc >>
    /\ UNCHANGED << parser, arg_strings, arg_strings_pattern,
                    option_string_indices, extras, positionals, start_index,
                    stop, extras_from >>

\* ------------------------------------------------------------------------
\* The main loop, lines 292-332

\* line 297-299
max_option_string_index ==
    IF DOMAIN option_string_indices = {} THEN -1
    ELSE Max(DOMAIN option_string_indices)

\* lines 303-306
next_option_string_index ==
    CHOOSE i \in DOMAIN option_string_indices :
        /\ i >= start_index
        /\ \A j \in DOMAIN option_string_indices : j >= start_index => i <= j

\* line 278: the counts consume_positionals(start_index) matches
arg_counts ==
    MatchArgumentsPartial([k \in 1..Len(positionals) |-> P.actions[positionals[k]]],
                          arg_strings_pattern, start_index + 1)

\* consume_positionals(start_index) up to its calls of take_action
BeginPositionals(next_pc) ==
    /\ action_tuples' = PositionalInvocations(positionals, arg_counts,
                                              arg_strings, start_index)
    /\ stop' = start_index + Sum(arg_counts)
    /\ pc' = next_pc
    /\ UNCHANGED << parser, arg_strings, stdin, arg_strings_pattern,
                    option_string_indices, seen_actions,
                    seen_non_default_actions, namespace, extras, positionals,
                    start_index, error, taken, extras_from >>

\* lines 300-308: a string lies before the next option
ConsumePositionals ==
    /\ pc = "loop"
    /\ start_index <= max_option_string_index
    /\ start_index # next_option_string_index
    /\ BeginPositionals("positionals")

\* argparse's own test at line 312: go on unless positionals were consumed
LeavesLoopIfConsumed(positionals_end_index, index) ==
    positionals_end_index > index

\* line 312: whether the loop is left after consume_positionals
LeavesLoop(positionals_end_index, index) == positionals_end_index >= index

\* lines 289-290 and 312-316: consume_positionals returns; the loop is left
\* (break), or goes on to line 320
ReturnPositionals ==
    /\ pc = "positionals"
    /\ action_tuples = <<>>
    /\ positionals' = Slice(positionals, Len(arg_counts), Len(positionals))
    /\ start_index' = stop
    /\ pc' = IF LeavesLoop(stop, start_index) THEN "after_loop" ELSE "tail"
    /\ UNCHANGED << parser, arg_strings, stdin, arg_strings_pattern,
                    option_string_indices, seen_actions,
                    seen_non_default_actions, namespace, extras,
                    action_tuples, stop, error, taken, extras_from >>

\* lines 300-306 and 320-326 with 197-260: the strings before the next
\* option, if any are left, go to extras and that option is resolved
ConsumeOptional ==
    /\ \/ pc = "tail"
       \/ /\ pc = "loop"
          /\ start_index <= max_option_string_index
          /\ start_index = next_option_string_index
    /\ LET at_option == start_index \in DOMAIN option_string_indices
           index == IF at_option THEN start_index ELSE next_option_string_index
           skipped == IF at_option THEN <<>>
                      ELSE Slice(arg_strings, start_index, index)
           skipped_from == IF at_option THEN <<>>
                           ELSE IndexRange(start_index, index)
           t == option_string_indices[index]
           r == ResolveOptional(P, arg_strings, arg_strings_pattern, index,
                                t.action, t.option_string, t.explicit,
                                t.explicit_arg, <<>>)
       IN  CASE r.kind = "extras" ->
                  /\ extras' = Append(extras \o skipped, arg_strings[index + 1])
                  /\ extras_from' = Append(extras_from \o skipped_from, index)
                  /\ start_index' = r.stop
                  /\ pc' = "loop"
                  /\ UNCHANGED << action_tuples, stop, error >>
             [] r.kind = "tuples" ->
                  /\ extras' = extras \o skipped
                  /\ extras_from' = extras_from \o skipped_from
                  /\ start_index' = index
                  /\ action_tuples' = r.tuples
                  /\ stop' = r.stop
                  /\ pc' = "optional"
                  /\ UNCHANGED error
             [] r.kind = "raise" ->
                  /\ extras' = extras \o skipped
                  /\ extras_from' = extras_from \o skipped_from
                  /\ start_index' = index
                  /\ \E gettext_bound \in BOOLEAN :
                        Raise(IF r.error.kind = "message"
                              THEN [r.error EXCEPT
                                      !.kind = MessageFailure(gettext_bound)]
                              ELSE r.error)
                  /\ UNCHANGED << action_tuples, stop >>
    /\ UNCHANGED << parser, arg_strings, stdin, arg_strings_pattern,
                    option_string_indices, seen_actions,
                    seen_non_default_actions, namespace, positionals, taken >>

\* lines 265-267 and 326: consume_optional returns stop
ReturnOptional ==
    /\ pc = "optional"
    /\ action_tuples = <<>>
    /\ start_index' = stop
    /\ pc' = "loop"
    /\ UNCHANGED << parser, arg_strings, stdin, arg_strings_pattern,
                    option_string_indices, seen_actions,
                    seen_non_default_actions, namespace, extras, positionals,
                    action_tuples, stop, error, taken, extras_from >>

\* line 329: the positionals after the last option consumed
FinalPositionals ==
    /\ \/ pc = "after_loop"
       \/ pc = "loop" /\ start_index > max_option_string_index
    /\ BeginPositionals("final")

\* the required group, if any, none of whose members was seen with a value
MissingGroups ==
    { g \in 1..Len(P.groups) :
        /\ P.groups[g].required
        /\ \A i \in 1..Len(P.groups[g].group_actions) :
              P.groups[g].group_actions[i] \notin seen_non_default_actions }

\* (a slip in lines 340-359: the groups are looked at before the arguments)
MissingRequiredAfterGroups ==
    IF MissingGroups # {} THEN {}
    ELSE { a \in 1..Len(P.actions) :
             P.actions[a].required /\ a \notin seen_actions }

\* the required arguments never seen
MissingRequired ==
    { a \in 1..Len(P.actions) : P.actions[a].required /\ a \notin seen_actions }

\* lines 289-290 and 329-362: the extras, the checks and the return
Finish ==
    /\ pc = "final"
    /\ action_tuples = <<>>
    /\ positionals' = Slice(positionals, Len(arg_counts), Len(positionals))
    /\ extras' = extras \o Slice(arg_strings, stop, Len(arg_strings))
    /\ extras_from' = extras_from \o IndexRange(stop, Len(arg_strings))
    /\ IF positionals' # <<>>
       \* line 337: self.error(_('too few arguments'))
       THEN \E gettext_bound \in BOOLEAN :
               Raise(IF gettext_bound
                     THEN Error("SystemExit", 0, "too few arguments", 0)
                     ELSE Error("NameError", 0, "too few arguments", 0))
       ELSE IF MissingRequired # {}
       \* lines 343-344: _get_action_name is not a name of the module
       THEN Raise(Error("NameError", Max({ -a : a \in MissingRequired }) * (-1),
                        "argument is required", 0))
       ELSE IF MissingGroups # {}
       \* lines 355-359
       THEN Raise(Error("NameError", 0, "one of the arguments is required",
                        Max({ -g : g \in MissingGroups }) * (-1)))
       ELSE /\ pc' = "done"
            /\ UNCHANGED error
    /\ UNCHANGED << parser, arg_strings, stdin, arg_strings_pattern,
                    option_string_indices, seen_actions,
                    seen_non_default_actions, namespace, start_index,
                    action_tuples, stop, taken >>

Next ==
    \/ BuildPattern
    \/ ConsumePositionals
    \/ ReturnPositionals
    \/ ConsumeOptional
    \/ ReturnOptional
    \/ TakeAction
    \/ FinalPositionals
    \/ Finish

Spec == Init /\ [][Next]_vars

\* the longest argument vector of the runs checked for termination
MaxLiveArgs == 3

LiveInit == Init /\ Len(arg_strings) <= MaxLiveArgs

\* _parse_known_args runs to its end once called: no step waits on anything
FairSpec == LiveInit /\ [][Next]_vars /\ WF_vars(Next)

\* ========================================================================
\* Properties
\* ========================================================================

\* indices of the argument vector, from 0 as in the code
Indices == 0..(Len(arg_strings) - 1)

Calls == 1..Len(taken)
OptionCalls == { k \in Calls : taken[k].at >= 0 }
PositionalCalls == { k \in Calls : taken[k].at = -1 }

\* index i lies in the argument slice of call k
InSlice(k, i) == \E n \in 1..Len(taken[k].from) : taken[k].from[n] = i

\* the index of the '--' that _get_values dropped from call k's strings, or -1
DroppedFrom(k) ==
    IF taken[k].from # <<>> /\ RemovedAt(taken[k].args) # 0
    THEN taken[k].from[RemovedAt(taken[k].args)] ELSE -1

One(b) == IF b THEN 1 ELSE 0

IsOptionToken(i) == \E k \in OptionCalls : taken[k].at = i
OptionSlices(i) == Cardinality({ k \in OptionCalls : InSlice(k, i) })
PositionalSlices(i) == Cardinality({ k \in PositionalCalls : InSlice(k, i) })
PositionalValues(i) ==
    Cardinality({ k \in PositionalCalls : InSlice(k, i) /\ DroppedFrom(k) # i })
InExtras(i) == Cardinality({ j \in 1..Len(extras_from) : extras_from[j] = i })
IsSeparator(i) == FirstSeparator(arg_strings) = i + 1

\* the histories agree with what the code holds: each extra is the string
\* at the index it is recorded for, each call's strings are its slice
HistoryAgrees ==
    /\ Len(extras) = Len(extras_from)
    /\ \A j \in 1..Len(extras) : extras[j] = arg_strings[extras_from[j] + 1]
    /\ \A k \in Calls :
          taken[k].from # <<>> =>
             taken[k].args = [n \in 1..Len(taken[k].from) |->
                                 arg_strings[taken[k].from[n] + 1]]

\* C1 as stated: on return every index is exactly one of option token, value
\* of one option, value of one positional, the separator, an extra.
C1_EveryTokenInOneClass ==
    pc = "done" =>
        \A i \in Indices :
            One(IsOptionToken(i)) + OptionSlices(i) + PositionalValues(i)
              + One(IsSeparator(i)) + InExtras(i) = 1

\* C1 amended: on return every index is exactly one of option token, in the
\* slice of one option, in the slice of one positional, an extra; the
\* separator is dropped from a positional's slice or is itself an extra.
C1_EveryTokenConsumedOnce ==
    pc = "done" =>
        /\ HistoryAgrees
        /\ \A i \in Indices :
              /\ One(IsOptionToken(i)) + OptionSlices(i) + PositionalSlices(i)
                   + InExtras(i) = 1
              /\ IsSeparator(i) =>
                    \/ \E k \in PositionalCalls : DroppedFrom(k) = i
                    \/ InExtras(i) = 1

\* a returned parse that resolved an option with a value and left the
\* separator in extras
C1_Witness ==
    /\ pc = "done"
    /\ \E k \in OptionCalls : taken[k].from # <<>>
    /\ \E i \in Indices : IsSeparator(i) /\ InExtras(i) = 1

\* the calls that hand the stdin placeholder to a parse_stdin option
PlaceholderCalls ==
    { k \in OptionCalls :
        /\ P.actions[taken[k].action].cls = "parse_stdin"
        /\ taken[k].args = << <<"-">> >> }

\* C2: with standard input a pipe when the parse starts, the second of two
\* different stdin options given '-' fails with "already being used", naming
\* itself; it gets no value and the first claim stays as it was.
C2_SecondClaimFails ==
    ~stdin.tty =>
        \A j, k \in PlaceholderCalls :
            (/\ j < k
             /\ \A i \in PlaceholderCalls : j <= i
             /\ taken[j].action # taken[k].action) =>
                /\ taken[k].outcome = "raised"
                /\ error.kind = "SystemExit"
                /\ error.why = "data from standard input already being used"
                /\ error.action = taken[k].action
                /\ namespace[P.actions[taken[k].action].dest]
                     = InitialNamespace(P)[P.actions[taken[k].action].dest]
                /\ namespace["stdin"]
                     = ClaimV(P.actions[taken[j].action].dest,
                              taken[j].option_string)

\* two different options of one exclusion group, both called
ConflictingCalls ==
    { jk \in OptionCalls \X OptionCalls :
        /\ jk[1] < jk[2]
        /\ taken[jk[1]].action # taken[jk[2]].action
        /\ taken[jk[1]].action \in ActionConflicts(P, taken[jk[2]].action) }

\* C3: when the second of two options of one exclusion group is taken the
\* parse fails with argparse's conflict error, which names that option and
\* the one it conflicts with.
C3_ConflictNamesBoth ==
    \A jk \in ConflictingCalls :
        /\ pc = "failed"
        /\ error.kind = "ArgumentError"
        /\ error.why = "not allowed with argument"
        /\ error.action = taken[jk[2]].action
        /\ error.other = taken[jk[1]].action

\* the caller supplied a token for call k: its option string or a value
Supplied(k) == taken[k].at >= 0 \/ WithoutSeparator(taken[k].args) # <<>>

\* C4: an argument is in seen_non_default_actions exactly if one of its calls
\* had a token supplied by the caller (and its values were converted); an
\* argument called without any is not there.
C4_NonDefaultIffSupplied ==
    \A a \in 1..Len(P.actions) :
        /\ a \in seen_non_default_actions =>
              \E k \in Calls : taken[k].action = a /\ Supplied(k)
        /\ (\E k \in Calls : /\ taken[k].action = a
                             /\ Supplied(k)
                             /\ taken[k].outcome # "raised")
              => a \in seen_non_default_actions

\* members of group g seen with a value
SeenMembers(g) ==
    { a \in seen_non_default_actions :
        \E i \in 1..Len(P.groups[g].group_actions) :
            P.groups[g].group_actions[i] = a }

\* C5: while the parse has not failed, no exclusion group has two members in
\* seen_non_default_actions.
C5_AtMostOneMemberSeen ==
    pc # "failed" =>
        \A g \in 1..Len(P.groups) : Cardinality(SeenMembers(g)) <= 1

\* a returned parse in which a member of a group was seen and another
\* argument was taken after it
C5_Witness ==
    /\ pc = "done"
    /\ \E g \in 1..Len(P.groups) : Cardinality(SeenMembers(g)) = 1
    /\ \E j, k \in Calls :
          /\ j < k
          /\ \E g \in 1..Len(P.groups) : taken[j].action \in SeenMembers(g)

\* a single-dash string of two or more flags, each a registered option that
\* takes no value, which is not itself an option string
IsFlagCluster(s) ==
    /\ Len(s) >= 3
    /\ s[1] \in prefix_chars
    /\ s \notin OptionStrings(P)
    /\ \A n \in 2..Len(s) :
          /\ <<s[1], s[n]>> \in OptionStrings(P)
          /\ P.actions[OptionAction(P, <<s[1], s[n]>>)].nargs = "0"

\* the calls made for the option token at index i, in the order made
CallsAt(i) == SelectSeq([k \in Calls |-> k], LAMBDA k : taken[k].at = i)

\* C6: once the loop has consumed a cluster such as -AC at index i, the
\* calls made at i are those of -A and -C given apart: one per flag, in
\* order, each applied without values and storing its constant, and the
\* cluster is not in extras.
C6_ClusterIsItsFlags ==
    (/\ pc = "loop"
     /\ start_index >= 1
     /\ (start_index - 1) \in DOMAIN option_string_indices
     /\ IsFlagCluster(arg_strings[start_index])) =>
        LET i == start_index - 1
            s == arg_strings[start_index]
        IN  /\ Len(CallsAt(i)) = Len(s) - 1
            /\ \A n \in 1..Len(CallsAt(i)) :
                  LET c == taken[CallsAt(i)[n]]
                  IN  /\ c.option_string = <<s[1], s[n + 1]>>
                      /\ c.action = OptionAction(P, <<s[1], s[n + 1]>>)
                      /\ c.args = <<>>
                      /\ c.outcome = "applied"
            /\ \A n \in 2..Len(s) :
                  LET A == P.actions[OptionAction(P, <<s[1], s[n]>>)]
                  IN  A.cls = "store_const" =>
                         \/ namespace[A.dest] = A.const
                         \/ \E k \in Calls :
                               /\ k > CallsAt(i)[Len(CallsAt(i))]
                               /\ P.actions[taken[k].action].dest = A.dest
            /\ InExtras(i) = 0

\* the loop has just consumed a cluster
C6_Witness ==
    /\ pc = "loop"
    /\ start_index >= 1
    /\ (start_index - 1) \in DOMAIN option_string_indices
    /\ IsFlagCluster(arg_strings[start_index])
    /\ Len(CallsAt(start_index - 1)) = 2

\* C7: the first '--' gets the pattern symbol '-' and every string after it
\* 'A'; no option is called at or after it; and for the search parser the
\* vector ["--", "-a"] returns terms = ['-a'].
C7_SeparatorEndsOptions ==
    (pc # "start" /\ Len(arg_strings_pattern) = Len(arg_strings)
       /\ FirstSeparator(arg_strings) # 0) =>
        LET sep == FirstSeparator(arg_strings)
        IN  /\ arg_strings_pattern[sep] = "-"
            /\ \A j \in (sep + 1)..Len(arg_strings) : arg_strings_pattern[j] = "A"
            /\ \A k \in OptionCalls : taken[k].at < sep - 1
            /\ \A i \in DOMAIN option_string_indices : i < sep - 1
            /\ (pc = "done" /\ P = SearchParser
                  /\ arg_strings = << <<"-", "-">>, <<"-", "a">> >>) =>
                  /\ namespace["terms"] = ListV(<< StrV(<<"-", "a">>) >>)
                  /\ extras = <<>>

\* the search parser returned from ["--", "-a"]
C7_Witness ==
    /\ pc = "done"
    /\ P = SearchParser
    /\ arg_strings = << <<"-", "-">>, <<"-", "a">> >>

\* the loop is over and every option it resolved has made its calls
LoopIsOver == pc \in {"after_loop", "final", "done"}

\* the strings before the last option that are neither an option string nor
\* among the values of an option called: the first is the positional at
\* which the loop arrived
Unclaimed ==
    { i \in Indices :
        /\ i < max_option_string_index
        /\ i \notin DOMAIN option_string_indices
        /\ \A k \in OptionCalls : ~InSlice(k, i) }

FirstPositional ==
    IF Unclaimed = {} THEN -1
    ELSE CHOOSE i \in Unclaimed : \A j \in Unclaimed : i <= j

\* the registered options spelled after the first positional
OptionsAfterPositional ==
    { i \in DOMAIN option_string_indices :
        /\ FirstPositional >= 0
        /\ i > FirstPositional
        /\ option_string_indices[i].action # 0 }

\* C8 as stated: on return a registered option that follows positional
\* strings has had its action called and is not in extras.
C8_OptionAfterPositionalsTaken ==
    pc = "done" =>
        \A i \in OptionsAfterPositional :
            /\ \E k \in OptionCalls : taken[k].at = i
            /\ InExtras(i) = 0

\* C8 amended: a registered option that follows positional strings is never
\* called; the positionals take the run before it as far as they match, and
\* on return the option's string is in extras.
C8_OptionAfterPositionalsLeft ==
    LoopIsOver =>
        \A i \in OptionsAfterPositional :
            /\ \A k \in OptionCalls : taken[k].at # i
            /\ \A k \in PositionalCalls : \A n \in 1..Len(taken[k].from) :
                  FirstPositional <= taken[k].from[n] /\ taken[k].from[n] < i
            /\ pc = "done" => InExtras(i) = 1

\* a returned parse whose positional took the string before a registered
\* option
C8_Witness ==
    /\ pc = "done"
    /\ OptionsAfterPositional # {}
    /\ \E k \in PositionalCalls : InSlice(k, FirstPositional)

\* C9: once the loop has arrived at a positional before an option, no option
\* at or after it is ever called; the positionals take one run of strings
\* that starts there, and on return every other string from there on is in
\* extras.
C9_StopsAtFirstPositional ==
    (LoopIsOver /\ FirstPositional >= 0) =>
        /\ \A k \in OptionCalls : taken[k].at < FirstPositional
        /\ start_index <= max_option_string_index
        /\ \A i \in Indices :
              PositionalSlices(i) >= 1 =>
                 /\ i >= FirstPositional
                 /\ \A j \in FirstPositional..i : PositionalSlices(j) = 1
        /\ pc = "done" =>
              \A i \in Indices :
                 i >= FirstPositional =>
                    PositionalSlices(i) + InExtras(i) = 1

\* a returned parse that called an option, then arrived at a positional and
\* left a later option in extras
C9_Witness ==
    /\ pc = "done"
    /\ FirstPositional >= 1
    /\ OptionCalls # {}
    /\ \E i \in DOMAIN option_string_indices :
          i > FirstPositional /\ InExtras(i) = 1

\* the loop is at an option string that resolves to no registered option
AtUnknownOption ==
    /\ pc = "loop"
    /\ start_index \in DOMAIN option_string_indices
    /\ option_string_indices[start_index].action = 0

\* C10: the step taken at an unregistered option string appends that string
\* to extras, moves the index on by one, calls nothing, raises nothing and
\* returns to the loop.
C10_UnknownOptionToExtras ==
    [][AtUnknownOption =>
          /\ extras' = Append(extras, arg_strings[start_index + 1])
          /\ start_index' = start_index + 1
          /\ taken' = taken
          /\ action_tuples' = <<>>
          /\ namespace' = namespace
          /\ seen_actions' = seen_actions
          /\ error' = NoError
          /\ pc' = "loop"]_vars

\* an unregistered option string has just gone to extras after an option
\* was called, and there are strings left
C10_Witness ==
    /\ pc = "loop"
    /\ start_index >= 2
    /\ (start_index - 1) \in DOMAIN option_string_indices
    /\ option_string_indices[start_index - 1].action = 0
    /\ extras # <<>>
    /\ extras[Len(extras)] = arg_strings[start_index]
    /\ taken # <<>>
    /\ start_index < Len(arg_strings)

\* the positionals that were never taken
UnmatchedPositionals ==
    { a \in 1..Len(P.actions) :
        P.actions[a].option_strings = <<>> /\ a \notin seen_actions }

\* C11: a parse never returns with a positional unmatched, and the failure
\* raised for unmatched positionals (line 337) is the parser's own error
\* "too few arguments", which names no argument.
C11_TooFewArguments ==
    /\ pc = "done" => UnmatchedPositionals = {}
    /\ error.why = "too few arguments" =>
          /\ pc = "failed"
          /\ error.kind = "SystemExit"
          /\ error.action = 0

\* the required options, and whether the argument vector spells one before
\* the separator
RequiredOptions ==
    { a \in 1..Len(P.actions) :
        P.actions[a].required /\ P.actions[a].option_strings # <<>> }

InStream(a) ==
    \E i \in DOMAIN option_string_indices : option_string_indices[i].action = a

\* C12: a required option is reported missing exactly if the vector does not
\* spell it: the report is the parser's error naming that option, a parse
\* that returns had every required option in its vector, and an option the
\* vector spells is never reported.
C12_RequiredOptionIffAbsent ==
    \A a \in RequiredOptions :
        /\ (pc = "done") => InStream(a)
        /\ (error.why = "argument is required" /\ error.action = a) =>
              /\ error.kind = "SystemExit"
              /\ ~InStream(a)

\* C13: the failure raised for a required group none of whose members was
\* seen with a value is the parser's error naming the group, and a parse
\* returns only if every required group has such a member.
C13_RequiredGroup ==
    /\ pc = "done" =>
          \A g \in 1..Len(P.groups) :
              P.groups[g].required => SeenMembers(g) # {}
    /\ error.why = "one of the arguments is required" =>
          /\ pc = "failed"
          /\ error.kind = "SystemExit"
          /\ error.other \in 1..Len(P.groups)
          /\ P.groups[error.other].required
          /\ SeenMembers(error.other) = {}

\* call k handed the single string '-' to a parse_stdin argument (a '--'
\* taken in with it is dropped before the argument sees its strings)
HandedPlaceholder(k) ==
    /\ P.actions[taken[k].action].cls = "parse_stdin"
    /\ WithoutSeparator(taken[k].args) = << <<"-">> >>

\* the call just made handed the single string '-' to a parse_stdin argument
JustTookPlaceholder == taken # <<>> /\ HandedPlaceholder(Len(taken))

\* the literal '-' as a value: the string, or the list holding it
IsLiteralDash(v) ==
    \/ v.t = "str" /\ v.s = <<"-">>
    \/ v.t = "list" /\ v.l = << StrV(<<"-">>) >>

\* nothing of standard input was touched and no claim was recorded
StdinUntouched ==
    /\ namespace["stdin"].t = "unset"
    /\ stdin.reads = 0
    /\ stdin.handle = "original"

\* C14 as stated: with standard input a terminal, every parse_stdin argument
\* given '-' is assigned the literal '-' without a failure, a claim or a
\* read, whatever its type.
C14_TerminalPlaceholderLiteral ==
    (stdin.tty /\ JustTookPlaceholder) =>
        LET c == taken[Len(taken)]
        IN  /\ c.outcome = "applied"
            /\ IsLiteralDash(namespace[P.actions[c.action].dest])
            /\ StdinUntouched

\* C14 amended: with standard input a terminal, a parse_stdin argument given
\* '-' is assigned the literal '-' unless its type is ids, whose converter
\* rejects it: then the parse fails with that argument's error and the
\* destination keeps its value.  Either way there is no claim and no read.
C14_TerminalPlaceholderByType ==
    (stdin.tty /\ JustTookPlaceholder) =>
        LET c == taken[Len(taken)]
            A == P.actions[c.action]
        IN  /\ StdinUntouched
            /\ A.type = "ids" =>
                  /\ c.outcome = "raised"
                  /\ pc = "failed"
                  /\ error.kind = "ArgumentError"
                  /\ error.action = c.action
                  /\ error.why = "'-' is only valid when piping data in"
                  /\ \A k \in Calls : taken[k].action = c.action =>
                                         taken[k].outcome = "raised"
                  /\ namespace[A.dest] = InitialNamespace(P)[A.dest]
            /\ A.type # "ids" =>
                  /\ c.outcome = "applied"
                  /\ IsLiteralDash(namespace[A.dest])

\* on a terminal an option of type string_list has just been given '-'
C14_Witness ==
    /\ stdin.tty
    /\ JustTookPlaceholder
    /\ taken[Len(taken)].at >= 0
    /\ taken[Len(taken)].outcome = "applied"
    /\ namespace[P.actions[taken[Len(taken)].action].dest]
         = ListV(<< StrV(<<"-">>) >>)

\* the call just made is the first to hand '-' to a parse_stdin argument,
\* standard input was a pipe, and the call went through: the claim was made
FirstClaimJustMade ==
    /\ JustTookPlaceholder
    /\ ~stdin.tty
    /\ taken[Len(taken)].outcome = "applied"
    /\ \A k \in 1..(Len(taken) - 1) : ~HandedPlaceholder(k)

\* the lines of the pipe that hold more than whitespace
NonBlank(x) == \E j \in 1..Len(x) : x[j] \notin Whitespace
NonBlankLines == SelectSeq(stdin.lines, NonBlank)

\* t is line x without the whitespace at its end
IsTrailingTrimOf(t, x) ==
    /\ t # <<>>
    /\ t[Len(t)] \notin Whitespace
    /\ Len(t) <= Len(x)
    /\ SubSeq(x, 1, Len(t)) = t
    /\ \A j \in (Len(t) + 1)..Len(x) : x[j] \in Whitespace

\* t is line x without the whitespace at either end
IsTrimOf(t, x) ==
    /\ t # <<>>
    /\ t[1] \notin Whitespace
    /\ t[Len(t)] \notin Whitespace
    /\ \E a \in 0..Len(x) :
          /\ a + Len(t) <= Len(x)
          /\ SubSeq(x, a + 1, a + Len(t)) = t
          /\ \A j \in 1..a : x[j] \in Whitespace
          /\ \A j \in (a + Len(t) + 1)..Len(x) : x[j] \in Whitespace

\* C15 as stated: the first claim assigns the non-blank lines of the pipe in
\* order, each without its trailing whitespace and with its leading
\* whitespace kept.
C15_LinesTrailingTrimmed ==
    FirstClaimJustMade =>
        LET v == namespace[P.actions[taken[Len(taken)].action].dest]
        IN  /\ v.t = "list"
            /\ Len(v.l) = Len(NonBlankLines)
            /\ \A i \in 1..Len(v.l) :
                  v.l[i].t = "str" /\ IsTrailingTrimOf(v.l[i].s, NonBlankLines[i])

\* C15 amended: the first claim assigns the non-blank lines of the pipe in
\* order, each without the whitespace at both of its ends.
C15_LinesTrimmed ==
    FirstClaimJustMade =>
        LET v == namespace[P.actions[taken[Len(taken)].action].dest]
        IN  /\ v.t = "list"
            /\ Len(v.l) = Len(NonBlankLines)
            /\ \A i \in 1..Len(v.l) :
                  v.l[i].t = "str" /\ IsTrimOf(v.l[i].s, NonBlankLines[i])

\* the first claim was just made from a pipe that holds a blank line and a
\* line with whitespace in front
C15_Witness ==
    /\ FirstClaimJustMade
    /\ Len(NonBlankLines) < Len(stdin.lines)
    /\ \E i \in 1..Len(stdin.lines) :
          NonBlank(stdin.lines[i]) /\ stdin.lines[i][1] \in Whitespace
    /\ namespace[P.actions[taken[Len(taken)].action].dest].t = "list"

\* a claim was made and went through
ClaimMade ==
    /\ ~stdin.tty
    /\ namespace["stdin"].t = "claim"
    /\ \E k \in Calls : HandedPlaceholder(k) /\ taken[k].outcome = "applied"

\* C16: the pipe is read at most once, and once a claim has gone through
\* sys.stdin is no longer the pipe but the terminal, whatever is taken after.
C16_PipeReadOnce ==
    /\ stdin.reads <= 1
    /\ ClaimMade =>
          /\ stdin.handle = "/dev/tty"
          /\ IsATTY(stdin)
          /\ stdin.reads = 1
    /\ stdin.handle = "/dev/tty" => ClaimMade

\* a parse returned in which a second '-' was taken after the claim
C16_Witness ==
    /\ pc = "done"
    /\ ClaimMade
    /\ stdin.reads = 1
    /\ \E j, k \in Calls :
          j < k /\ HandedPlaceholder(j) /\ HandedPlaceholder(k)

\* the option string at index i carries an explicit argument its option
\* cannot use: a flag spelled with two dashes and "=value", or a single-dash
\* flag followed by a character that is no single-dash option
ExplicitMisuse(i) ==
    LET t == option_string_indices[i]
    IN  /\ t.action # 0
        /\ t.explicit
        /\ P.actions[t.action].nargs = "0"
        /\ \/ t.option_string[2] \in prefix_chars
           \/ /\ t.explicit_arg # <<>>
              /\ <<t.option_string[1], t.explicit_arg[1]>> \notin OptionStrings(P)

\* C17: the loop never gets past an option string with an explicit argument
\* its option cannot use; resolving it ends the parse with an ArgumentError
\* of that option, and the string is not put in extras.
C17_ExplicitArgumentError ==
    \A i \in DOMAIN option_string_indices :
        ExplicitMisuse(i) =>
            /\ start_index <= i
            /\ (pc = "failed" /\ start_index = i
                  /\ error.why = "ignored explicit argument") =>
                  /\ error.kind = "ArgumentError"
                  /\ error.action = option_string_indices[i].action
                  /\ InExtras(i) = 0

\* C18: a parse that ends in an exception leaves the namespace it was given
\* as it was when the parse began.
C18_NoPartialCommit ==
    pc = "failed" => namespace = InitialNamespace(P)

\* the destinations of the registered arguments
ArgumentDests == Dests(P) \ {"stdin"}

\* call k was made for destination d and its action was run
Applied(k, d) ==
    P.actions[taken[k].action].dest = d /\ taken[k].outcome = "applied"

\* call k gave no strings to a positional that may go without and whose
\* default is SUPPRESS
TakesSuppressedDefault(k) ==
    /\ P.actions[taken[k].action].option_strings = <<>>
    /\ P.actions[taken[k].action].nargs \in {"*", "?"}
    /\ P.actions[taken[k].action].default.t = "SUPPRESS"
    /\ WithoutSeparator(taken[k].args) = <<>>

\* C19: a call whose value is SUPPRESS marks its argument as seen and runs
\* nothing; a destination differs from what the parse began with only if an
\* action was run for it; and a destination without a default has an
\* attribute on return only if the caller supplied its argument.
C19_OnlyTouchedKeys ==
    /\ \A k \in Calls :
          /\ TakesSuppressedDefault(k) => taken[k].outcome = "suppressed"
          /\ taken[k].outcome = "suppressed" =>
                /\ taken[k].action \in seen_actions
                /\ taken[k].action \notin seen_non_default_actions
                /\ ~Supplied(k)
    /\ \A d \in ArgumentDests :
          /\ namespace[d] # InitialNamespace(P)[d] =>
                \E k \in Calls : Applied(k, d)
          /\ (pc = "done" /\ InitialNamespace(P)[d].t = "unset"
                /\ namespace[d].t # "unset") =>
                \E k \in Calls : Applied(k, d) /\ Supplied(k)

\* a parse returned with one destination assigned, and another left without
\* an attribute by a call whose value was SUPPRESS
C19_Witness ==
    /\ pc = "done"
    /\ \E k \in Calls : TakesSuppressedDefault(k) /\ taken[k].outcome = "suppressed"
    /\ \E d \in ArgumentDests : namespace[d].t = "unset"
    /\ \E d \in ArgumentDests :
          InitialNamespace(P)[d].t = "unset" /\ namespace[d].t # "unset"

\* the parse has returned or raised
Done == pc \in {"done", "failed"}

\* a step that comes back to the head of the while loop (line 300) from an
\* iteration has moved start_index on
LoopAdvances ==
    (pc \in {"loop", "optional"} /\ pc' = "loop") => start_index' > start_index

\* C21: the index never passes the end of the argument vector, every
\* iteration that returns to the loop has moved it on, and the parse comes
\* to its end.
C21_Terminates ==
    /\ [](start_index <= Len(arg_strings) /\ stop <= Len(arg_strings))
    /\ [][LoopAdvances]_vars
    /\ <>Done

\* a parse returned after the loop went round more than once
C21_Witness ==
    /\ pc = "done"
    /\ \E j, k \in OptionCalls : taken[j].at < taken[k].at
    /\ extras # <<>>

\* the number of values an action's nargs allows n to be
ArityPermits(action, n) ==
    CASE action.nargs = "None" -> n = 1
      [] action.nargs = "?" -> n <= 1
      [] action.nargs = "*" -> TRUE
      [] action.nargs = "+" -> n >= 1
      [] OTHER -> n = NargsCount(action.nargs)

\* an invocation of an option whose values, if any, are strings of the
\* vector and not the text after '=' or after the option's letter
FromFollowing(t) == t.at >= 0 /\ Len(t.args) = Len(t.from)

\* the values of t are the strings right after its option string, all of
\* them arguments ('A'), as many as its nargs allows
TakesFollowingArguments(t) ==
    /\ t.from = IndexRange(t.at + 1, t.at + 1 + Len(t.from))
    /\ \A n \in 1..Len(t.from) :
          /\ arg_strings_pattern[t.from[n] + 1] = "A"
          /\ t.args[n] = arg_strings[t.from[n] + 1]
    /\ ArityPermits(P.actions[t.action], Len(t.from))

\* C22: an option without an explicit argument takes the run of arguments
\* right after it, none of them an option string, as many as its nargs
\* allows, and consume_optional returns the index after the last one taken.
C22_OptionTakesFollowingArguments ==
    /\ \A k \in Calls : FromFollowing(taken[k]) => TakesFollowingArguments(taken[k])
    /\ \A n \in 1..Len(action_tuples) :
          FromFollowing(action_tuples[n])
             => TakesFollowingArguments(action_tuples[n])
    /\ (pc = "optional" /\ action_tuples # <<>>)
          => LET last == action_tuples[Len(action_tuples)]
             IN  FromFollowing(last) => stop = last.at + 1 + Len(last.from)

\* an option took two arguments and stopped in front of an option string
C22_Witness ==
    /\ pc = "done"
    /\ \E k \in OptionCalls :
          /\ Len(taken[k].from) = 2
          /\ taken[k].at + 3 < Len(arg_strings)
          /\ arg_strings_pattern[taken[k].at + 4] = "O"

\* the option string and the explicit argument an argument string spells
\* out in full: '--opt=value', or '-o' with more characters after it
InlineOf(s) ==
    LET none == [has |-> FALSE, option_string |-> <<>>, value |-> <<>>]
    IN  IF s \in OptionStrings(P) THEN none
        ELSE IF /\ Contains(s, "=")
                /\ SubSeq(s, 1, Find(s, "=") - 1) \in OptionStrings(P)
        THEN [has |-> TRUE, option_string |-> SubSeq(s, 1, Find(s, "=") - 1),
              value |-> Tail0(s, Find(s, "="))]
        ELSE IF /\ Len(s) > 2
                /\ s[1] \in prefix_chars
                /\ s[2] \notin prefix_chars
                /\ SubSeq(s, 1, 2) \in OptionStrings(P)
        THEN [has |-> TRUE, option_string |-> SubSeq(s, 1, 2),
              value |-> Tail0(s, 2)]
        ELSE none

\* the nargs whose pattern matches one argument
AcceptsOne(action) == action.nargs \in {"None", "?", "*", "+", "1"}

\* consume_optional is about to resolve the option string at index i
AtOption(i) ==
    /\ pc = "loop"
    /\ start_index = i
    /\ i \in DOMAIN option_string_indices

\* an invocation with an explicit argument
Inline(t) == t.at >= 0 /\ Len(t.args) = 1 /\ t.from = <<>>

\* what consume_optional leaves for an option string with an explicit
\* argument: one call with that argument, and the index after the string;
\* for '-xyVAL' with -x a flag, the call of -x and then -y with 'VAL'
InlineResolved ==
    \A i \in Indices :
       AtOption(i) =>
          LET in == InlineOf(arg_strings[i + 1])
              a == OptionAction(P, in.option_string)
              rest == InlineOf(<<in.option_string[1]>> \o in.value)
              b == OptionAction(P, rest.option_string)
          IN  in.has =>
                 /\ AcceptsOne(P.actions[a]) =>
                       /\ pc' = "optional"
                       /\ action_tuples' =
                             << Invocation(a, <<in.value>>, <<>>,
                                           in.option_string, i) >>
                       /\ stop' = i + 1
                 /\ ( /\ P.actions[a].nargs = "0"
                      /\ in.option_string[2] \notin prefix_chars
                      /\ rest.has
                      /\ rest.value # <<>>
                      /\ AcceptsOne(P.actions[b]) ) =>
                       /\ pc' = "optional"
                       /\ action_tuples' =
                             << Invocation(a, <<>>, <<>>, in.option_string, i),
                                Invocation(b, <<rest.value>>, <<>>,
                                           rest.option_string, i) >>
                       /\ stop' = i + 1

\* the last call stored the explicit argument it was made with
InlineStored ==
    (taken # <<>> /\ Inline(taken[Len(taken)])) =>
       LET c == taken[Len(taken)]
           A == P.actions[c.action]
       IN  (c.outcome = "applied" /\ A.cls \in {"store", "parse_stdin"}
                                  /\ A.type = "None" /\ c.args[1] # <<"-">>) =>
              namespace[A.dest] =
                 IF A.nargs \in {"None", "?"} THEN StrV(c.args[1])
                 ELSE ListV(<< StrV(c.args[1]) >>)

\* C23: an option with an explicit argument whose nargs accepts one value
\* is called with exactly that argument and the index moves on by one, so
\* the next string is not its value; the same for the last option of a
\* cluster of single-dash flags.
C23_InlineValueTaken ==
    /\ []InlineStored
    /\ [][InlineResolved]_vars
    /\ [](pc = "optional" =>
            LET last == IF action_tuples # <<>>
                        THEN action_tuples[Len(action_tuples)]
                        ELSE taken[Len(taken)]
            IN  Inline(last) => stop = last.at + 1)

\* -c of the cluster '-vcx' was stored with 'x' and the string after the
\* cluster went elsewhere
C23_Witness ==
    /\ pc = "done"
    /\ \E k \in Calls :
          /\ Inline(taken[k])
          /\ taken[k].outcome = "applied"
          /\ taken[k].at + 1 < Len(arg_strings)
          /\ arg_strings_pattern[taken[k].at + 2] = "A"
          /\ Len(CallsAt(taken[k].at)) = 2
          /\ namespace[P.actions[taken[k].action].dest] = StrV(taken[k].args[1])

\* the fewest values an action's nargs asks for
MinValues(action) ==
    CASE action.nargs \in {"None", "+"} -> 1
      [] action.nargs \in {"?", "*"} -> 0
      [] OTHER -> NargsCount(action.nargs)

\* the number of arguments ('A') in a row after index i
RunAfter(i) ==
    Max({ n \in 0..(Len(arg_strings) - i - 1) :
            \A m \in 1..n : arg_strings_pattern[i + 1 + m] = "A" })

\* consume_optional, about to resolve a registered option string that has
\* fewer arguments after it than its nargs asks for, raises the
\* ArgumentError of _match_argument and does nothing else
TooFewValuesRaises ==
    \A i \in Indices :
       ( /\ AtOption(i)
         /\ arg_strings[i + 1] \in OptionStrings(P)
         /\ MinValues(P.actions[OptionAction(P, arg_strings[i + 1])]) > RunAfter(i) )
       => LET a == OptionAction(P, arg_strings[i + 1])
          IN  /\ pc' = "failed"
              /\ error' = Error("ArgumentError", a, NargsError(P.actions[a]), 0)
              /\ UNCHANGED << taken, extras, namespace, seen_actions, stdin >>

\* C24: a registered option without an explicit argument and with too few
\* arguments after it ends the parse with the ArgumentError of its nargs;
\* it is not called and its string is not put in extras.
C24_TooFewValuesIsFatal ==
    /\ [][TooFewValuesRaises]_vars
    /\ [](pc = "failed" /\ error.kind = "ArgumentError"
                        /\ error.why = NargsError(P.actions[error.action])
             => /\ ~IsOptionToken(start_index)
                /\ InExtras(start_index) = 0)

\* an option that takes one argument stood right in front of another
\* option string, after an earlier option was called
C24_Witness ==
    /\ pc = "failed"
    /\ error.kind = "ArgumentError"
    /\ error.why = "expected one argument"
    /\ arg_strings[start_index + 1] \in OptionStrings(P)
    /\ start_index + 1 < Len(arg_strings)
    /\ arg_strings_pattern[start_index + 2] = "O"
    /\ taken # <<>>

\* the messages of the checks of lines 334-359
ValidationMessages ==
    { "too few arguments", "argument is required",
      "one of the arguments is required" }

\* index i was handed to a call or put in extras
Consumed(i) == (\E k \in Calls : InSlice(k, i)) \/ IsOptionToken(i)
                  \/ InExtras(i) > 0

\* a check of lines 334-359 raises only from the end of the parse: the loop
\* and the last consume_positionals are over and every call was made
ValidationIsLast ==
    (error' # error /\ error'.why \in ValidationMessages) =>
        /\ pc = "final"
        /\ action_tuples = <<>>
        /\ \A i \in Indices : Consumed(i)'

\* C25: the checks of lines 334-359 come after all consumption, and the one
\* that raises is the first that fails of: positionals left, then the
\* required arguments as registered, then the required groups.
C25_ValidationOrder ==
    /\ [][ValidationIsLast]_vars
    /\ [](error.why = "too few arguments" => UnmatchedPositionals # {})
    /\ [](error.why = "argument is required" =>
             /\ UnmatchedPositionals = {}
             /\ error.action \in RequiredOptions
             /\ error.action \notin seen_actions
             /\ \A b \in RequiredOptions : b < error.action => b \in seen_actions)
    /\ [](error.why = "one of the arguments is required" =>
             /\ UnmatchedPositionals = {}
             /\ \A a \in RequiredOptions : a \in seen_actions
             /\ \A g \in 1..Len(P.groups) :
                   (P.groups[g].required /\ SeenMembers(g) = {})
                      => error.other <= g)

\* a required option and a required group both failed and the option was
\* the one reported; so was the earlier of two required options
C25_Witness ==
    /\ pc = "failed"
    /\ error.why = "argument is required"
    /\ \/ \E g \in 1..Len(P.groups) :
             P.groups[g].required /\ SeenMembers(g) = {}
       \/ \E b \in RequiredOptions : b > error.action /\ b \notin seen_actions
    /\ taken # <<>>

\* this step raises
Raises == error.kind = "none" /\ error'.kind # "none"

\* the calls made are the same, or one more that raised
NoCallOrRaisedCall ==
    \/ taken' = taken
    \/ /\ Len(taken') = Len(taken) + 1
       /\ SubSeq(taken', 1, Len(taken)) = taken
       /\ taken'[Len(taken')].outcome = "raised"

\* nothing follows an exception: every step starts without one, the step
\* that raises makes no call that went through, and the exception is the
\* only one
AbortsAtOnce ==
    /\ error.kind = "none"
    /\ Raises => /\ pc' = "failed"
                 /\ NoCallOrRaisedCall
    /\ ~Raises => (taken' = taken \/ taken'[Len(taken')].outcome # "raised")

WroteClaimOnly ==
    /\ error'.kind = "IOError"
    /\ namespace["stdin"].t = "unset"
    /\ namespace'["stdin"].t = "claim"
    /\ \A d \in DOMAIN namespace : d # "stdin" => namespace'[d] = namespace[d]

ValuesOf(c) == GetValues(P.actions[c.action], IsATTY(stdin), c.args).value

\* this step calls a parse_stdin action with values other than the
\* placeholder alone
CallsWithoutPlaceholder ==
    /\ Len(taken') = Len(taken) + 1
    /\ P.actions[taken'[Len(taken')].action].cls = "parse_stdin"
    /\ taken'[Len(taken')].outcome # "suppressed"
    /\ (taken'[Len(taken')].outcome = "raised" => error'.kind \notin {"ArgumentError", "NameError"})
    /\ ~IsLiteralDash(ValuesOf(taken'[Len(taken')]))

\* C27: a parse_stdin action called with anything but the placeholder alone,
\* on a terminal or not, reads nothing, leaves sys.stdin and the claim
\* as they are and sets its destination to the values it was given.
C27_OnlyPlaceholderClaims ==
    [][CallsWithoutPlaceholder =>
          LET c == taken'[Len(taken')]
          IN  /\ c.outcome = "applied"
              /\ stdin' = stdin
              /\ namespace' = [namespace EXCEPT
                                  ![P.actions[c.action].dest] = ValuesOf(c)]]_vars

\* on a pipe: ids was given '-' and a number, and terms nothing at all
C27_Witness ==
    /\ ~stdin.tty
    /\ stdin.reads = 0
    /\ namespace["stdin"].t = "unset"
    /\ taken # <<>>
    /\ taken[Len(taken)].outcome = "applied"
    /\ P.actions[taken[Len(taken)].action].cls = "parse_stdin"
    /\ LET v == namespace[P.actions[taken[Len(taken)].action].dest]
       IN  \/ v.t = "list" /\ Len(v.l) = 2 /\ v.l[1] = StrV(<<"-">>)

\* a single-dash string that starts with a registered flag and goes on
ClusterLed(s) ==
    /\ Len(s) >= 3
    /\ s[1] \in prefix_chars
    /\ s[2] \notin prefix_chars
    /\ s \notin OptionStrings(P)
    /\ <<s[1], s[2]>> \in OptionStrings(P)
    /\ P.actions[OptionAction(P, <<s[1], s[2]>>)].nargs = "0"

\* consume_optional on a cluster: no call is made while the string is
\* resolved; it ends with a call noted for each character in turn, or raises
ClusterResolvedFirst ==
    \A i \in Indices :
       (AtOption(i) /\ ClusterLed(arg_strings[i + 1])) =>
          LET s == arg_strings[i + 1]
          IN  /\ UNCHANGED << taken, namespace, seen_actions,
                              seen_non_default_actions, stdin >>
              /\ CallsAt(i) = <<>>
              /\ \/ /\ pc' = "failed"
                    /\ error'.kind # "none"
                 \/ /\ pc' = "optional"
                    /\ Len(action_tuples') >= 2
                    /\ \A n \in 1..Len(action_tuples') :
                          /\ action_tuples'[n].option_string = <<s[1], s[n + 1]>>
                          /\ action_tuples'[n].at = i

\* while the calls of a cluster are made they are made in the order of its
\* characters
ClusterTakenInOrder ==
    (pc = "optional" /\ ClusterLed(arg_strings[start_index + 1])) =>
       LET s == arg_strings[start_index + 1]
           made == CallsAt(start_index)
       IN  /\ \A n \in 1..Len(made) :
                 taken[made[n]].option_string = <<s[1], s[n + 1]>>
           /\ \A m \in 1..Len(action_tuples) :
                 action_tuples[m].option_string = <<s[1], s[Len(made) + m + 1]>>

\* C28: the options of a cluster are called only once the whole string is
\* resolved, then in the order of their characters; when the resolution
\* raises, none of them has been called.
C28_ClusterAllOrNothing ==
    /\ [][ClusterResolvedFirst]_vars
    /\ []ClusterTakenInOrder
    /\ [](( /\ pc = "failed"
            /\ start_index \in DOMAIN option_string_indices
            /\ ClusterLed(arg_strings[start_index + 1])
            /\ (taken = <<>> \/ taken[Len(taken)].outcome # "raised") )
             => CallsAt(start_index) = <<>>)

\* after an earlier call, '-vk' had nothing for -k to take: -v was not called
C28_Witness ==
    /\ pc = "failed"
    /\ error.kind = "ArgumentError"
    /\ start_index \in DOMAIN option_string_indices
    /\ ClusterLed(arg_strings[start_index + 1])
    /\ P.actions[error.action].option_strings[1] # SubSeq(arg_strings[start_index + 1], 1, 2)
    /\ CallsAt(start_index) = <<>>
    /\ taken # <<>>
    /\ taken[Len(taken)].outcome = "applied"

\* namespace.stdin holds a claim
Claimed == namespace["stdin"].t = "claim"

\* sys.stdin is no longer the stream the parse began with
Redirected == stdin.handle # "original"

\* C29: while the parse goes on, and after any exception but that of the
\* open of line 67, namespace.stdin holds a claim exactly when sys.stdin
\* has been replaced; a claim once written stays as it is.
C29_ClaimIffRedirected ==
    /\ []((pc # "failed" \/ error.kind # "IOError")
             => (Claimed <=> Redirected))
    /\ [][Claimed => namespace'["stdin"] = namespace["stdin"]]_vars

\* on a pipe, a claim was made and a later option was called after it
C29_Witness ==
    /\ ~stdin.tty
    /\ pc # "failed"
    /\ Claimed
    /\ Redirected
    /\ \E k \in Calls :
          /\ HandedPlaceholder(k)
          /\ k < Len(taken)
          /\ taken[Len(taken)].outcome = "applied"
          /\ P.actions[taken[Len(taken)].action].cls = "parse_stdin"

\* the members of the exclusion groups that were called with a value of
\* their own
SuppliedMembers ==
    { a \in 1..Len(P.actions) :
        /\ \E g \in 1..Len(P.groups) :
              \E i \in 1..Len(P.groups[g].group_actions) :
                 P.groups[g].group_actions[i] = a
        /\ \E k \in Calls : taken[k].action = a /\ taken[k].outcome # "suppressed" }

\* the parse ended at the conflict test of lines 185-189
ConflictRaised == pc = "failed" /\ error.why = "not allowed with argument"

\* C30: a conflict is between two different members of one group, the
\* other one called earlier; a member given any number of times, with no
\* other member of its groups given, raises none.
C30_NoSelfConflict ==
    /\ ConflictRaised =>
          /\ error.other # error.action
          /\ \E g \in 1..Len(P.groups) :
                \E i, j \in 1..Len(P.groups[g].group_actions) :
                   /\ P.groups[g].group_actions[i] = error.action
                   /\ P.groups[g].group_actions[j] = error.other
          /\ \E j \in Calls :
                /\ j < Len(taken)
                /\ taken[j].action = error.other
                /\ taken[j].outcome = "applied"
          /\ taken[Len(taken)].action = error.action
    /\ Cardinality(SuppliedMembers) <= 1 => ~ConflictRaised

\* a member of a group was given twice, no other member was, and the parse
\* returned
C30_Witness ==
    /\ pc = "done"
    /\ Cardinality(SuppliedMembers) = 1
    /\ \E j, k \in Calls :
          /\ j < k
          /\ taken[j].action = taken[k].action
          /\ taken[j].action \in SuppliedMembers
          /\ taken[j].outcome = "applied"
          /\ taken[k].outcome = "applied"
====
